---- MODULE Spec2Model ----
(***************************************************************************)
(* Model of the speech-to-text Telegram bot (src/unnamed/part_000), of the *)
(* get-json helper it calls (src/unnamed/part_001, lines 1-27) and of the  *)
(* parameter validation, error formatting and credentials of the bundled   *)
(* Watson Visual Recognition client (src/unnamed/part_001, lines 45-1137). *)
(*                                                                         *)
(* JavaScript values are records carrying a jstype field, so that any two  *)
(* values can be compared; an object's properties are further fields of    *)
(* the record, and a property that is not set is a field that is absent.   *)
(***************************************************************************)
EXTENDS Integers, Sequences, FiniteSets, TLC

(***************************************************************************)
(* Bounds of the model.                                                    *)
(***************************************************************************)
\* Number of voice messages the bot receives in one run.
MaxMsgs == 2

Msgs == 1..MaxMsgs

\* The voice file_ids Telegram may send, as sequences of characters.
FileIds == { <<"A">>, <<"B">> }

(***************************************************************************)
(* JavaScript values.                                                      *)
(***************************************************************************)
Undefined == [jstype |-> "undefined"]
Null == [jstype |-> "null"]
Str(s) == [jstype |-> "string", s |-> s]
EmptyObject == [jstype |-> "object"]

\* JavaScript truthiness of a value.
Truthy(v) == /\ v.jstype \notin {"undefined", "null"}
             /\ v # Str("")
             /\ v # [jstype |-> "boolean", b |-> FALSE]

\* Reading a property of v throws a TypeError unless CanRead(v).
CanRead(v) == v.jstype \notin {"undefined", "null"}

\* o.k for an o with CanRead(o).
Prop(o, k) == IF k \in DOMAIN o THEN o[k] ELSE Undefined

\* a[0] of a JavaScript array, held as a sequence.
First(a) == IF Len(a) >= 1 THEN a[1] ELSE Undefined

(***************************************************************************)
(* get-json: getJSON(url, callback), src/unnamed/part_001 lines 5-27.      *)
(***************************************************************************)
\* Response bodies the Telegram getFile endpoint (or a proxy before it) sends.
Bodies == { "<html>", "", "{ok:true,resu", "null", "[]", "{ok:false}",
            "{ok:true,result:{}}", "{ok:true,result:{file_path:voice/f.oga}}" }

StatusCodes == { 200, 201, 204, 301, 400, 401, 404, 500 }

\* Whether JSON.parse(body) returns (TRUE) or throws a SyntaxError (FALSE):
\* it throws for a page of HTML, for an empty body and for a cut one.
IsJSON(body) == body \notin { "<html>", "", "{ok:true,resu" }

\* JSON.parse(body) for a body with IsJSON(body).
JSONparse(body) ==
  CASE body = "null" -> Null
    [] body = "[]" -> [jstype |-> "array", items |-> << >>]
    [] body = "{ok:false}" -> [jstype |-> "object", ok |-> [jstype |-> "boolean", b |-> FALSE]]
    [] body = "{ok:true,result:{}}" ->
         [jstype |-> "object", ok |-> [jstype |-> "boolean", b |-> TRUE],
          result |-> EmptyObject]
    [] body = "{ok:true,result:{file_path:voice/f.oga}}" ->
         [jstype |-> "object", ok |-> [jstype |-> "boolean", b |-> TRUE],
          result |-> [jstype |-> "object", file_path |-> Str("voice/f.oga")]]

\* What phin hands to its callback: a transport error, or a response.
PhinOutcomes ==
  { [error |-> Str("ECONNRESET"), response |-> Undefined] } \cup
  { [error |-> Null, response |-> [jstype |-> "object", body |-> b, statusCode |-> c]] :
      b \in Bodies, c \in StatusCodes }

ParseError == Str("Parse error: SyntaxError")
UnexpectedCode == Str("Unexpected response code.")

\* callback(error, response): one call of the callback.
Call(error, response) == [error |-> error, response |-> response]

\* Mutant of getJSON: the status code is looked at before the body.
getJSONStatusFirst(o) ==
  IF Truthy(o.error)
    THEN << Call(o.error, Undefined) >>
  ELSE IF o.response.statusCode # 200
    THEN << Call(UnexpectedCode, Undefined) >>
  ELSE IF ~IsJSON(o.response.body)
    THEN << Call(ParseError, Undefined) >>
  ELSE << Call(Null, JSONparse(o.response.body)) >>

\* getJSON, lines 5-27: the calls it makes of its callback, in order, when
\* phin hands it the outcome o; each call is followed by a return.
getJSON(o) ==
  IF Truthy(o.error)
    THEN << Call(o.error, Undefined) >>
  ELSE IF ~IsJSON(o.response.body)
    THEN << Call(ParseError, Undefined) >>
  ELSE IF o.response.statusCode # 200
    THEN << Call(UnexpectedCode, Undefined) >>
  ELSE << Call(Null, JSONparse(o.response.body)) >>


(***************************************************************************)
(* The speech service's answers to recognize().                            *)
(***************************************************************************)
Alt(t) == [jstype |-> "object", transcript |-> t]
Result(alts) == [jstype |-> "object", alternatives |-> alts]

\* The `results` arrays the service may return with a null error.
ResultArrays ==
  { <<>>,
    << Result(<<>>) >>,
    << Result(<< Alt("hola") >>) >>,
    << Result(<< Alt("hola"), Alt("ola") >>) >>,
    << Result(<< Alt("ola") >>), Result(<< Alt("hola") >>) >> }

\* What recognize hands to its callback: (err, res).
RecognizeOutcomes ==
  { [err |-> Str("ETIMEDOUT"), res |-> Undefined] } \cup
  { [err |-> Null, res |-> [jstype |-> "object", results |-> r]] : r \in ResultArrays }

(***************************************************************************)
(* The bot: state.                                                         *)
(***************************************************************************)
VARIABLES
  alive,        \* the node process runs (no uncaught exception has ended it)
  pc,           \* pc[m]: where message m's chain of calls stands
  file_id,      \* file_id[m]: context.message.voice.file_id of message m
  getErr,       \* getErr[m]: the error the GET callback received
  wsState,      \* wsState[m]: the write stream fs.createWriteStream made
  wsPending,    \* wsPending[m]: bytes piped to the write stream are not on disk yet
  rsState,      \* rsState[m]: the read stream fs.createReadStream made
  audioRead,    \* audioRead[m]: what the read stream found in the file
  unlinked,     \* unlinked[m]: the paths message m has called fs.unlink on
  files,        \* the paths that exist in local storage
  hasData,      \* hasData[p]: the file at path p holds bytes
  recCb,        \* recCb[m]: the (err, res) the recognize callback received
  replies,      \* replies[m]: the texts sent with context.reply
  console,      \* console[m]: what console.log has printed for message m
  trace,        \* trace[m]: the calls and callbacks of message m, in order
  boot,         \* how far the top-level code of the bot has run
  configReads,  \* how many times config/config.yml has been read
  config_data,  \* what config.data() returned
  token,        \* token[m]: the bot token of the URL message m's file is asked with
  recParams     \* recParams[m]: the params of message m's recognize call

bootVars == << boot, configReads, config_data >>

botVars == << alive, pc, file_id, getErr, wsState, wsPending, rsState,
              audioRead, unlinked, files, hasData, recCb, replies, console, trace,
              bootVars, token, recParams >>

(***************************************************************************)
(* The Visual Recognition client: state of one call of an operation, and   *)
(* of one call of detectContentType.                                       *)
(***************************************************************************)
VARIABLES
  vpc,          \* "idle" before the operation is called, "done" after it
                \* returned, "responded" after the response to its request
  vop,          \* the operation called
  vparams,      \* the params the caller passed
  vrequest,     \* the request handed to this.request (Undefined if none)
  vcallback,    \* the errors the caller's callback was called with, in order
  vthrown,      \* the error the operation threw (Undefined if none)
  vhasCb,       \* whether the caller passed a callback
  vresponse,    \* the (err, result) the request came back with, << >> before
  vresult,      \* the (err, result) pairs the callback got on the response
  gOutcome,     \* what phin hands to the callback getJSON gave it
  gCalls,       \* the calls getJSON has made of its own callback, in order
  gDone,        \* phin has called the function getJSON gave it
  cOptions,     \* the options initCredentials is called with
  cEnv,         \* the environment variables of the process
  cBluemix,     \* the credentials bound to the application on Bluemix
  cResult,      \* what initCredentials threw or returned, << >> before the call
  dBuffer,      \* the bytes of the buffer detectContentType is called with
  dType         \* what detectContentType returned ("pending" before the call)

visVars == << vpc, vop, vparams, vrequest, vcallback, vthrown,
              vhasCb, vresponse, vresult >>

detVars == << dBuffer, dType >>

getVars == << gOutcome, gCalls, gDone >>

credVars == << cOptions, cEnv, cBluemix, cResult >>

libVars == << getVars, credVars >>

\* file_id + '.ogg'
OggPath(f) == f \o << ".ogg" >>

\* local_file_path = file_id (line 30)
LocalFilePath(f) == f

Paths == { OggPath(f) : f \in FileIds } \cup { LocalFilePath(f) : f \in FileIds }

\* What config/config.yml may be when it is read: a YAML mapping with the
\* token and the credentials, absent, not YAML, or empty.
ConfigFiles == { "mapping", "absent", "invalid", "empty" }
Doc == [jstype |-> "object", TELEGRAM_BOT_TOKEN |-> Str("123:abc"),
        WATSON_USER |-> Str("user"), WATSON_PASSWORD |-> Str("secret")]

\* module.exports.data, src/lib/config.js lines 4-14: the document
\* yaml.safeLoad makes of the file (undefined for an empty file), or
\* 'error' if reading or parsing throws.
data(file) ==
  CASE file = "mapping" -> Doc
    [] file = "empty" -> Undefined
    [] OTHER -> Str("error")

\* BOT_TOKEN, line 10.
BOT_TOKEN == Prop(config_data, "TELEGRAM_BOT_TOKEN")

NoParams == Undefined

NoRec == [err |-> Undefined, res |-> Undefined]
NoFile == << >>

BotInit ==
  /\ alive = TRUE
  /\ pc = [m \in Msgs |-> "none"]
  /\ file_id = [m \in Msgs |-> NoFile]
  /\ getErr = [m \in Msgs |-> Undefined]
  /\ wsState = [m \in Msgs |-> "none"]
  /\ wsPending = [m \in Msgs |-> FALSE]
  /\ rsState = [m \in Msgs |-> "none"]
  /\ audioRead = [m \in Msgs |-> "none"]
  /\ unlinked = [m \in Msgs |-> {}]
  /\ files = {}
  /\ hasData = [p \in Paths |-> FALSE]
  /\ recCb = [m \in Msgs |-> NoRec]
  /\ replies = [m \in Msgs |-> << >>]
  /\ console = [m \in Msgs |-> << >>]
  /\ trace = [m \in Msgs |-> << >>]
  /\ boot = "start"
  /\ configReads = 0
  /\ config_data = Undefined
  /\ token = [m \in Msgs |-> Undefined]
  /\ recParams = [m \in Msgs |-> NoParams]

(***************************************************************************)
(* The bot: the voice handler and its callbacks, src/unnamed/part_000      *)
(* lines 24-60.                                                            *)
(***************************************************************************)
\* The handler of message m has its streams on the audio file.
HasStreams(m) == wsState[m] # "none"

\* An exception leaves a callback of message m.  The callbacks are called
\* from I/O events with no try/catch around them (getJSON calls back outside
\* its try block, part_001 lines 8 and 25), so the exception is uncaught and
\* the node process ends.
Throw(m, events) ==
  /\ alive' = FALSE
  /\ pc' = [pc EXCEPT ![m] = "end"]
  /\ trace' = [trace EXCEPT ![m] = @ \o events \o << "throw" >>]

\* const config_data = config.data() and the constants made of it, lines
\* 9-22: the file is read; reading a property of an undefined document
\* throws.
LoadConfig(file) ==
  /\ alive
  /\ boot = "start"
  /\ configReads' = configReads + 1
  /\ config_data' = data(file)
  /\ IF CanRead(data(file))
       THEN boot' = "configured" /\ alive' = TRUE
       ELSE boot' = "start" /\ alive' = FALSE
  /\ UNCHANGED << pc, file_id, getErr, wsState, wsPending, rsState, audioRead,
                  unlinked, files, hasData, recCb, replies, console, trace,
                  token, recParams >>
  /\ UNCHANGED << visVars, detVars, libVars >>

\* bot.on(VOICE_EVENT, ...), line 24: the voice handler is subscribed.
Subscribe ==
  /\ alive
  /\ boot = "configured"
  /\ boot' = "subscribed"
  /\ UNCHANGED << alive, pc, file_id, getErr, wsState, wsPending, rsState, audioRead,
                  unlinked, files, hasData, recCb, replies, console, trace,
                  configReads, config_data, token, recParams >>
  /\ UNCHANGED << visVars, detVars, libVars >>

\* bot.startPolling(), line 62.
StartPolling ==
  /\ alive
  /\ boot = "subscribed"
  /\ boot' = "polling"
  /\ UNCHANGED << alive, pc, file_id, getErr, wsState, wsPending, rsState, audioRead,
                  unlinked, files, hasData, recCb, replies, console, trace,
                  configReads, config_data, token, recParams >>
  /\ UNCHANGED << visVars, detVars, libVars >>

\* Mutant of Voice: the handler reads the configuration again for its token.
VoiceReadsConfig(m, f) ==
  /\ alive
  /\ boot = "polling"
  /\ Truthy(BOT_TOKEN)
  /\ pc[m] = "none"
  /\ \A k \in Msgs : k < m => pc[k] # "none"
  /\ file_id' = [file_id EXCEPT ![m] = f]
  /\ \E file \in ConfigFiles :
       /\ configReads' = configReads + 1
       /\ token' = [token EXCEPT ![m] = Prop(data(file), "TELEGRAM_BOT_TOKEN")]
  /\ pc' = [pc EXCEPT ![m] = "getFile"]
  /\ trace' = [trace EXCEPT ![m] = @ \o << "getFile" >>]
  /\ UNCHANGED << alive, getErr, wsState, wsPending, rsState, audioRead,
                  unlinked, files, hasData, recCb, replies, console >>
  /\ UNCHANGED << boot, config_data, recParams, visVars, detVars, libVars >>

\* bot.on(VOICE_EVENT, ...), lines 24-28: message m arrives with file_id f
\* and the handler calls GET(BASE_URL_AUDIO_PATH + file_id, ...).
Voice(m, f) ==
  /\ alive
  /\ boot = "polling"
  /\ Truthy(BOT_TOKEN)
  /\ pc[m] = "none"
  /\ \A k \in Msgs : k < m => pc[k] # "none"
  /\ file_id' = [file_id EXCEPT ![m] = f]
  /\ token' = [token EXCEPT ![m] = BOT_TOKEN]
  /\ pc' = [pc EXCEPT ![m] = "getFile"]
  /\ trace' = [trace EXCEPT ![m] = @ \o << "getFile" >>]
  /\ UNCHANGED << alive, getErr, wsState, wsPending, rsState, audioRead,
                  unlinked, files, hasData, recCb, replies, console >>
  /\ UNCHANGED << bootVars, recParams, visVars, detVars, libVars >>

\* function(error, response), lines 28-59: reads response.result.file_path
\* without looking at error, then starts the download piped into
\* fs.createWriteStream(file_id + '.ogg'), which creates the file or, if
\* the path exists, truncates it.
GETCallback(m, error, response) ==
  /\ getErr' = [getErr EXCEPT ![m] = error]
  /\ IF ~CanRead(response) \/ ~CanRead(Prop(response, "result"))
       THEN /\ Throw(m, << "getFile.cb" >>)
            /\ UNCHANGED << wsState, files, hasData >>
       ELSE /\ pc' = [pc EXCEPT ![m] = "download"]
            /\ wsState' = [wsState EXCEPT ![m] = "open"]
            /\ files' = files \cup { OggPath(file_id[m]) }
            /\ hasData' = [hasData EXCEPT ![OggPath(file_id[m])] = FALSE]
            /\ trace' = [trace EXCEPT ![m] = @ \o << "getFile.cb", "download" >>]
            /\ UNCHANGED alive
  /\ UNCHANGED << file_id, wsPending, rsState, audioRead, unlinked,
                  recCb, replies, console >>
  /\ UNCHANGED << bootVars, token, recParams, visVars, detVars, libVars >>

\* phin answers the getFile request of message m and getJSON calls back.
GetFileReturn(m) ==
  /\ alive
  /\ pc[m] = "getFile"
  /\ \E o \in PhinOutcomes :
       \E i \in 1..Len(getJSON(o)) :
         LET cb == getJSON(o)[i] IN GETCallback(m, cb.error, cb.response)

\* Bytes of the download arrive and .pipe() writes them to the write
\* stream, which holds them until it has written them to the file.  How
\* many bytes it holds is not counted: more bytes arriving while some are
\* held change nothing.
DownloadData(m) ==
  /\ alive
  /\ pc[m] = "download"
  /\ ~wsPending[m]
  /\ wsPending' = [wsPending EXCEPT ![m] = TRUE]
  /\ UNCHANGED << alive, pc, file_id, getErr, wsState, rsState, audioRead,
                  unlinked, files, hasData, recCb, replies, console, trace >>
  /\ UNCHANGED << bootVars, token, recParams, visVars, detVars, libVars >>

\* The write stream of message m writes the bytes it holds to its file.
WsFlush(m) ==
  /\ alive
  /\ wsState[m] = "open"
  /\ wsPending[m]
  /\ wsPending' = [wsPending EXCEPT ![m] = FALSE]
  /\ hasData' = [hasData EXCEPT ![OggPath(file_id[m])] = TRUE]
  /\ UNCHANGED << alive, pc, file_id, getErr, wsState, rsState, audioRead,
                  unlinked, files, recCb, replies, console, trace >>
  /\ UNCHANGED << bootVars, token, recParams, visVars, detVars, libVars >>

\* Mutant of DownloadError: the error handler goes on to the transcription,
\* as the 'end' handler does.
DownloadErrorGoesOn(m) ==
  /\ alive
  /\ pc[m] = "download"
  /\ pc' = [pc EXCEPT ![m] = "recognize"]
  /\ rsState' = [rsState EXCEPT ![m] = "pending"]
  /\ trace' = [trace EXCEPT ![m] = @ \o << "download.error", "recognize" >>]
  /\ UNCHANGED << alive, file_id, getErr, wsState, wsPending, audioRead, unlinked,
                  files, hasData, recCb, replies, console >>
  /\ UNCHANGED << bootVars, token, recParams, visVars, detVars, libVars >>

\* .on('error', function(err) { // handle error }), lines 34-36.
DownloadError(m) ==
  /\ alive
  /\ pc[m] = "download"
  /\ pc' = [pc EXCEPT ![m] = "end"]
  /\ trace' = [trace EXCEPT ![m] = @ \o << "download.error" >>]
  /\ UNCHANGED << alive, file_id, getErr, wsState, wsPending, rsState,
                  audioRead, unlinked, files, hasData, recCb, replies, console >>
  /\ UNCHANGED << bootVars, token, recParams, visVars, detVars, libVars >>

\* Mutant of RecognizeParams: the model of another language.
RecognizeParamsEnglish(f) ==
  [jstype |-> "object", audio |-> OggPath(f),
   content_type |-> "audio/ogg;codecs=opus", model |-> "en-US_BroadbandModel"]

\* params, lines 38-42: what recognize is called with for the file id f.
RecognizeParams(f) ==
  [jstype |-> "object", audio |-> OggPath(f),
   content_type |-> "audio/ogg;codecs=opus", model |-> "es-ES_BroadbandModel"]

\* .on('end', function() {...}), lines 37-55: the response has ended; the
\* handler makes the read stream, calls speech_to_text.recognize and then
\* fs.unlink(local_file_path), all before it returns.  The unlink removes
\* the path if it exists and its callback ignores the error; no other
\* operation of the program names that path, so when the removal runs
\* makes no difference and it is taken here.
DownloadEnd(m) ==
  /\ alive
  /\ pc[m] = "download"
  /\ pc' = [pc EXCEPT ![m] = "recognize"]
  /\ rsState' = [rsState EXCEPT ![m] = "pending"]
  /\ recParams' = [recParams EXCEPT ![m] = RecognizeParams(file_id[m])]
  /\ unlinked' = [unlinked EXCEPT ![m] = @ \cup { LocalFilePath(file_id[m]) }]
  /\ files' = files \ { LocalFilePath(file_id[m]) }
  /\ trace' = [trace EXCEPT ![m] = @ \o << "download.end", "recognize", "unlink" >>]
  /\ UNCHANGED << alive, file_id, getErr, wsState, wsPending, audioRead,
                  hasData, recCb, replies, console >>
  /\ UNCHANGED << bootVars, token, visVars, detVars, libVars >>

\* The read stream of message m opens file_id + '.ogg' and reads what the
\* file holds.
RsRead(m) ==
  /\ alive
  /\ rsState[m] = "pending"
  /\ rsState' = [rsState EXCEPT ![m] = "read"]
  /\ audioRead' = [audioRead EXCEPT ![m] =
                    IF hasData[OggPath(file_id[m])] THEN "data" ELSE "empty"]
  /\ UNCHANGED << alive, pc, file_id, getErr, wsState, wsPending,
                  unlinked, files, hasData, recCb, replies, console, trace >>
  /\ UNCHANGED << bootVars, token, recParams, visVars, detVars, libVars >>

\* Mutant of IsErr: the test inverted, if (!err).
IsErrInverted(err) == ~Truthy(err)

\* if (err), line 46.
IsErr(err) == Truthy(err)

\* res.results[0].alternatives[0].transcript, line 49, can be read.
HasTranscript(res) ==
  /\ CanRead(res)
  /\ CanRead(First(res.results))
  /\ CanRead(First(First(res.results).alternatives))

\* Mutant of Transcript: the last alternative instead of the first.
TranscriptLastAlt(res) ==
  LET alts == First(res.results).alternatives IN alts[Len(alts)].transcript

\* res.results[0].alternatives[0].transcript, line 49.
Transcript(res) == First(First(res.results).alternatives).transcript

\* function(err, res), lines 45-50.
RecognizeCallback(m, err, res) ==
  /\ recCb' = [recCb EXCEPT ![m] = [err |-> err, res |-> res]]
  /\ IF IsErr(err)
       THEN /\ console' = [console EXCEPT ![m] = Append(@, err)]
            /\ pc' = [pc EXCEPT ![m] = "end"]
            /\ trace' = [trace EXCEPT ![m] = @ \o << "recognize.cb", "log" >>]
            /\ UNCHANGED << alive, replies >>
       ELSE IF ~HasTranscript(res)
         THEN /\ Throw(m, << "recognize.cb" >>)
              /\ UNCHANGED << replies, console >>
         ELSE /\ replies' = [replies EXCEPT ![m] = Append(@, Transcript(res))]
              /\ pc' = [pc EXCEPT ![m] = "end"]
              /\ trace' = [trace EXCEPT ![m] = @ \o << "recognize.cb", "reply" >>]
              /\ UNCHANGED << alive, console >>
  /\ UNCHANGED << file_id, getErr, wsState, wsPending, rsState, audioRead,
                  unlinked, files, hasData >>
  /\ UNCHANGED << bootVars, token, recParams, visVars, detVars, libVars >>

\* The speech service answers the recognize call of message m: with a
\* result once it has been sent the audio, with an error at any time.
RecognizeReturn(m) ==
  /\ alive
  /\ pc[m] = "recognize"
  /\ \E o \in RecognizeOutcomes :
       /\ Truthy(o.err) \/ rsState[m] = "read"
       /\ RecognizeCallback(m, o.err, o.res)

BotNext ==
  \/ \E file \in ConfigFiles : LoadConfig(file)
  \/ Subscribe
  \/ StartPolling
  \/ \E m \in Msgs :
       \/ \E f \in FileIds : Voice(m, f)
       \/ GetFileReturn(m)
       \/ DownloadData(m)
       \/ WsFlush(m)
       \/ DownloadError(m)
       \/ DownloadEnd(m)
       \/ RsRead(m)
       \/ RecognizeReturn(m)

(***************************************************************************)
(* The Visual Recognition client: content-type detection,                  *)
(* src/unnamed/part_001 lines 77-92.                                       *)
(***************************************************************************)
Stream == [jstype |-> "stream"]
Buffer(bytes) == [jstype |-> "buffer", bytes |-> bytes]

\* The byte values the buffers of the model are made of: the bytes of the
\* signatures and some others.
DetectBytes == { \h00, \h03, \h04, \h05, \h06, \h07, \h08, \h47, \h4B, \h4E,
                 \h50, \h89, \hD8, \hE0, \hE1, \hE2, \hE8, \hFF }

\* buffer.readUInt32BE(): the first four bytes, most significant first.  The
\* 32-bit unsigned value is held as its two 16-bit halves << high, low >>,
\* since TLC's integers stop below 2^31 and 0xffd8ffe0 lies above.
readUInt32BE(bytes) == << bytes[1] * 256 + bytes[2], bytes[3] * 256 + bytes[4] >>

\* Mutant of detectContentType: the case 0xffd8ffe8 left out.
detectContentTypeNoE8(bytes) ==
  LET signature == readUInt32BE(bytes) IN
  CASE signature \in { << \h504B, \h0304 >>, << \h504B, \h0506 >>, << \h504B, \h0708 >> }
         -> "application/zip"
    [] signature = << \h8950, \h4E47 >> -> "image/png"
    [] signature \in { << \hFFD8, \hFFE0 >>, << \hFFD8, \hFFE1 >> } -> "image/jpeg"
    [] OTHER -> "undefined"

\* detectContentType(buffer), for the bytes of the buffer.
detectContentType(bytes) ==
  LET signature == readUInt32BE(bytes) IN
  CASE signature \in { << \h504B, \h0304 >>, << \h504B, \h0506 >>, << \h504B, \h0708 >> }
         -> "application/zip"
    [] signature = << \h8950, \h4E47 >> -> "image/png"
    [] signature \in { << \hFFD8, \hFFE0 >>, << \hFFD8, \hFFE1 >>, << \hFFD8, \hFFE8 >> }
         -> "image/jpeg"
    [] OTHER -> "undefined"

DetIdle == dBuffer = << 0, 0, 0, 0 >> /\ dType = "pending"

DetInit ==
  /\ dBuffer \in { << a, b, c, d >> : a \in DetectBytes, b \in DetectBytes,
                                      c \in DetectBytes, d \in DetectBytes }
  /\ dType = "pending"

\* detectContentType is called with the buffer.
Detect ==
  /\ dType = "pending"
  /\ dType' = detectContentType(dBuffer)
  /\ UNCHANGED << dBuffer, botVars, visVars, libVars >>

(***************************************************************************)
(* The Visual Recognition client: classify, detectFaces and recognizeText, *)
(* src/unnamed/part_001 lines 64-118 and 289-507.                          *)
(***************************************************************************)
\* a JavaScript object made of o and the property k set to v
Set(o, k, v) == (k :> v) @@ o

\* pick(o, keys): the properties of o among keys
Pick(o, keys) ==
  [jstype |-> "object"] @@ [k \in (DOMAIN o \cap keys) |-> o[k]]

\* extend(defaults, o): the properties of o over those of defaults
Extend(defaults, o) == o @@ defaults

\* An array of strings.
Array(a) == [jstype |-> "array", items |-> a]

\* The values a caller may set images_file, image_file and url to.
ImagesFileValues ==
  { Stream, Buffer(<< \h89, \h50, \h4E, \h47 >>), Buffer(<< \h47, \h49, \h46, \h38 >>),
    Str("") }
ImageFileValues == { Stream, Str("") }
UrlValues == { Str("http://example.com/a.jpg"), Str("") }

\* {} with the property k set to each value of vals, and without it.
WithOptional(objs, k, vals) ==
  objs \cup { Set(o, k, v) : o \in objs, v \in vals }

\* The params a caller may pass: none, null, or an object with any of the
\* three properties.
ImageParams ==
  { Undefined, Null } \cup
  WithOptional(WithOptional(WithOptional({ EmptyObject },
    "images_file", ImagesFileValues), "image_file", ImageFileValues), "url", UrlValues)

\* Mutant of xor: a logical or.
xorAsOr(a, b) == Truthy(a) \/ Truthy(b)

\* xor(a, b), lines 64-66, as the condition it is used for.
xor(a, b) == (Truthy(a) \/ Truthy(b)) /\ ~(Truthy(a) /\ Truthy(b))

ImageParamError ==
  Str("Watson VisualRecognition.classify() requires either an images_file or a url parameter")

\* fixupImageParam(params), lines 101-118: the error it throws (Undefined if
\* none) and params as it leaves them.
fixupImageParam(params) ==
  LET aliased ==
        IF /\ Truthy(params)
           /\ Truthy(Prop(params, "image_file"))
           /\ ~Truthy(Prop(params, "images_file"))
          THEN Set(params, "images_file", params.image_file)
          ELSE params
  IN
  IF ~Truthy(aliased) \/ ~xor(Prop(aliased, "images_file"), Prop(aliased, "url"))
    THEN [threw |-> ImageParamError, params |-> aliased]
  ELSE IF Prop(aliased, "images_file").jstype = "buffer"
    THEN [threw |-> Undefined,
          params |-> Set(aliased, "images_file",
                         [jstype |-> "object", value |-> aliased.images_file,
                          options |-> [jstype |-> "object",
                                       contentType |->
                                         detectContentType(aliased.images_file.bytes)]])]
  ELSE [threw |-> Undefined, params |-> aliased]

VisInit ==
  /\ vpc = "idle"
  /\ vop = "none"
  /\ vparams = Undefined
  /\ vrequest = Undefined
  /\ vcallback = << >>
  /\ vthrown = Undefined
  /\ vhasCb = FALSE
  /\ vresponse = << >>
  /\ vresult = << >>

\* What calling a callback that was not passed throws.
NotAFunction == [jstype |-> "TypeError", message |-> "callback is not a function"]

\* The operation op returns: it called back with the errors in cb, handed
\* request to this.request, and threw thrown.
Returns(op, params, hasCb, request, cb, thrown) ==
  /\ vpc = "idle"
  /\ vpc' = "done"
  /\ vop' = op
  /\ vparams' = params
  /\ vhasCb' = hasCb
  /\ vrequest' = request
  /\ vcallback' = cb
  /\ vthrown' = thrown
  /\ UNCHANGED << vresponse, vresult, botVars, detVars, libVars >>

\* callback(e); return: the operation calls back with the error e and
\* returns; the call itself throws if no callback was passed.
CallsBack(op, params, hasCb, e) ==
  IF hasCb
    THEN Returns(op, params, hasCb, Undefined, << e >>, Undefined)
    ELSE Returns(op, params, hasCb, Undefined, << >>, NotAFunction)

\* The request of an operation that takes an image: a POST of the file as
\* form data if images_file is set, else a GET with the url in the query.
ImageRequest(path, params, formData, qs) ==
  IF Truthy(Prop(params, "images_file"))
    THEN [jstype |-> "object", url |-> path, method |-> "POST", formData |-> formData]
    ELSE [jstype |-> "object", url |-> path, method |-> "GET", qs |-> qs]

\* VisualRecognitionV3.prototype.classify, lines 289-339.
Classify(params, hasCb) ==
  LET fixed == fixupImageParam(params)
      full == Extend([classifier_ids |-> Array(<< "default" >>),
                      owners |-> Array(<< "me", "IBM" >>)], fixed.params)
  IN
  IF fixed.threw # Undefined
    THEN CallsBack("classify", params, hasCb, fixed.threw)
    ELSE Returns("classify", params, hasCb,
                 ImageRequest("/v3/classify", full,
                   [jstype |-> "object",
                    images_file |-> Prop(full, "images_file"),
                    parameters |-> [jstype |-> "object",
                                    value |-> [jstype |-> "json",
                                               of |-> Pick(full, {"classifier_ids", "owners",
                                                                  "threshold"})],
                                    options |-> [jstype |-> "object",
                                                 contentType |-> "application/json"]]],
                   Pick(full, {"url", "classifier_ids", "owners", "threshold"})),
                 << >>, Undefined)

\* VisualRecognitionV3.prototype.detectFaces, lines 385-418.
DetectFaces(params, hasCb) ==
  LET fixed == fixupImageParam(params) IN
  IF fixed.threw # Undefined
    THEN CallsBack("detectFaces", params, hasCb, fixed.threw)
    ELSE Returns("detectFaces", params, hasCb,
                 ImageRequest("/v3/detect_faces", fixed.params,
                   Pick(fixed.params, {"images_file"}), Pick(fixed.params, {"url"})),
                 << >>, Undefined)

\* VisualRecognitionV3.prototype.recognizeText, lines 474-507.
RecognizeText(params, hasCb) ==
  LET fixed == fixupImageParam(params) IN
  IF fixed.threw # Undefined
    THEN CallsBack("recognizeText", params, hasCb, fixed.threw)
    ELSE Returns("recognizeText", params, hasCb,
                 ImageRequest("/v3/recognize_text", fixed.params,
                   Pick(fixed.params, {"images_file"}), Pick(fixed.params, {"url"})),
                 << >>, Undefined)

\* The params a caller may pass to addImage and findSimilar.
CollectionParams ==
  { Undefined, Null } \cup
  WithOptional(WithOptional(WithOptional({ EmptyObject },
    "image_file", { Stream, Buffer(<< \h89, \h50, \h4E, \h47 >>), Str("red_dress.jpg"),
                    Str("") }),
    "collection_id", { Str("c1") }), "limit", { Str("10") })

\* Mutant of isStream: a file name passes for a stream.
isStreamOrName(v) == v.jstype \in { "stream", "string" }

\* isStream(v), line 49.
isStream(v) == v.jstype = "stream"

ImageFileError ==
  [jstype |-> "Error", message |-> "image_file param must be a standard Node.js Stream"]

\* VisualRecognitionV3.prototype.addImage, lines 875-903.
AddImage(params, hasCb) ==
  LET p == IF Truthy(params) THEN params ELSE EmptyObject IN
  IF ~Truthy(Prop(p, "image_file")) \/ ~isStream(p.image_file)
    THEN Returns("addImage", params, hasCb, Undefined, << >>, ImageFileError)
    ELSE Returns("addImage", params, hasCb,
                 [jstype |-> "object", url |-> "/v3/collections/{collection_id}/images",
                  method |-> "POST", path |-> p,
                  formData |-> [jstype |-> "object", image_file |-> p.image_file,
                                metadata |-> [jstype |-> "json",
                                              of |-> IF Truthy(Prop(p, "metadata"))
                                                       THEN p.metadata ELSE EmptyObject]]],
                 << >>, Undefined)

\* VisualRecognitionV3.prototype.findSimilar, lines 1116-1135.
FindSimilar(params, hasCb) ==
  LET p == IF Truthy(params) THEN params ELSE EmptyObject IN
  IF ~Truthy(Prop(p, "image_file")) \/ ~isStream(p.image_file)
    THEN Returns("findSimilar", params, hasCb, Undefined, << >>, ImageFileError)
    ELSE Returns("findSimilar", params, hasCb,
                 [jstype |-> "object", url |-> "/v3/collections/{collection_id}/find_similar",
                  method |-> "POST", qs |-> Pick(p, {"limit"}),
                  formData |-> Pick(p, {"image_file"}),
                  path |-> Pick(p, {"collection_id"})],
                 << >>, Undefined)

\* The property names of the params a caller may pass to createClassifier:
\* class names (one of them empty) followed by '_positive_examples', and
\* others.
NEGATIVE_EXAMPLES == "negative_examples"
ClassNames == { "", "foo", "bar" }
PositiveKey(class) == class \o "_positive_examples"
ClassifierKeys ==
  { "name", NEGATIVE_EXAMPLES, "classifier_id" } \cup { PositiveKey(c) : c \in ClassNames }
ClassifierParams ==
  { Undefined, Null } \cup
  { [jstype |-> "object"] @@ [k \in ks |-> IF k = "name" THEN Str("fruit") ELSE Stream] :
      ks \in SUBSET ClassifierKeys }

\* Object.keys(o): the property names of the JavaScript object o.
Keys(o) == DOMAIN o \ { "jstype" }

\* key.match(/^.+_positive_examples$/): the key is one character or more
\* followed by '_positive_examples'.
MatchesPositiveExamples(key) ==
  \E c \in ClassNames : c # "" /\ key = PositiveKey(c)

MissingExamplesError ==
  [jstype |-> "Error",
   message |-> "Missing required parameters: either two *_positive_examples or one *_positive_examples and one negative_examples must be provided."]

\* Mutant of example_keys: negative_examples is not an example set.
example_keysPositiveOnly(p) ==
  { key \in Keys(p) : MatchesPositiveExamples(key) }

\* example_keys, lines 559-561: the keys of params that name example sets.
example_keys(p) ==
  { key \in Keys(p) : key = NEGATIVE_EXAMPLES \/ MatchesPositiveExamples(key) }

\* VisualRecognitionV3.prototype.createClassifier, lines 557-582.
CreateClassifier(params, hasCb) ==
  LET p == IF Truthy(params) THEN params ELSE EmptyObject
      allowed_keys == { "name", NEGATIVE_EXAMPLES } \cup example_keys(p)
  IN
  IF Cardinality(example_keys(p)) < 2
    THEN CallsBack("createClassifier", params, hasCb, MissingExamplesError)
    ELSE Returns("createClassifier", params, hasCb,
                 [jstype |-> "object", url |-> "/v3/classifiers", method |-> "POST",
                  formData |-> Pick(p, allowed_keys)],
                 << >>, Undefined)

\* What a request may come back with: a transport error and no result, or
\* no error and the service's JSON, whose status is 'OK', 'ERROR' (with a
\* statusInfo) or absent.
TransportError == [jstype |-> "Error", message |-> "ECONNRESET"]
ServiceResult(status, statusInfo) ==
  [jstype |-> "object", status |-> Str(status), statusInfo |-> Str(statusInfo)]
Responses ==
  { [err |-> TransportError, result |-> Undefined],
    [err |-> Null, result |-> ServiceResult("OK", "")],
    [err |-> Null, result |-> ServiceResult("ERROR", "invalid-api-key")],
    [err |-> Null, result |-> ServiceResult("ERROR", "cannot-analyze")],
    [err |-> Null, result |-> [jstype |-> "object", images |-> Array(<< >>)]] }

\* The error errorFormatter makes of a result whose status is 'ERROR'.
FormattedError(result) ==
  [jstype |-> "object", error |-> result.statusInfo,
   code |-> IF result.statusInfo = Str("invalid-api-key") THEN 401 ELSE 400]

\* errorFormatter(cb), lines 127-148: the calls the function it returns
\* makes of callback when it is called with (err, result).
errorFormatter(err, result) ==
  IF Truthy(err)
    THEN << [err |-> err, result |-> result] >>
  ELSE IF Prop(result, "status") = Str("ERROR")
    THEN IF result.statusInfo = Str("invalid-api-key")
           THEN << [err |-> FormattedError(result), result |-> Null] >>
           ELSE << >>
  ELSE << [err |-> err, result |-> result] >>

\* The request of the operation comes back with r and this.request calls
\* errorFormatter(callback) with it; callback is the caller's, or a
\* function that does nothing if the caller passed none.
Respond(r) ==
  /\ vpc = "done"
  /\ vrequest # Undefined
  /\ vpc' = "responded"
  /\ vresponse' = r
  /\ vresult' = IF vhasCb THEN errorFormatter(r.err, r.result) ELSE << >>
  /\ UNCHANGED << vop, vparams, vrequest, vcallback, vthrown, vhasCb, botVars, detVars, libVars >>

VisNext ==
  \/ \E params \in ImageParams, hasCb \in BOOLEAN :
       \/ Classify(params, hasCb)
       \/ DetectFaces(params, hasCb)
       \/ RecognizeText(params, hasCb)
  \/ \E params \in CollectionParams, hasCb \in BOOLEAN :
       \/ AddImage(params, hasCb)
       \/ FindSimilar(params, hasCb)
  \/ \E params \in ClassifierParams, hasCb \in BOOLEAN : CreateClassifier(params, hasCb)
  \/ \E r \in Responses : Respond(r)

(***************************************************************************)
(* get-json on its own: one call of getJSON, src/unnamed/part_001 lines    *)
(* 5-27.                                                                   *)
(***************************************************************************)
GetIdle == gOutcome = Call(Null, Undefined) /\ gCalls = << >> /\ gDone = FALSE

GetInit == gOutcome \in PhinOutcomes /\ gCalls = << >> /\ gDone = FALSE

\* phin calls the function getJSON gave it, lines 6-26.
PhinCallback ==
  /\ gOutcome \in PhinOutcomes
  /\ ~gDone
  /\ gDone' = TRUE
  /\ gCalls' = getJSON(gOutcome)
  /\ UNCHANGED << gOutcome, credVars, botVars, visVars, detVars >>

(***************************************************************************)
(* The Visual Recognition client: initCredentials, src/unnamed/part_001    *)
(* lines 204-241.                                                          *)
(***************************************************************************)
\* The properties of o that are not undefined: extend() copies only those.
Defined(o) == [k \in { x \in DOMAIN o : x = "jstype" \/ o[x] # Undefined } |-> o[k]]

True == [jstype |-> "boolean", b |-> TRUE]
False == [jstype |-> "boolean", b |-> FALSE]

\* The options a caller may pass.
QsValues == { EmptyObject, [jstype |-> "object", api_key |-> Str("qs-key")],
              [jstype |-> "object", version |-> Str("2016-05-20")] }
CallerOptions ==
  WithOptional(WithOptional(WithOptional(WithOptional(WithOptional(WithOptional(
    { EmptyObject },
    "api_key", { Str(""), Str("key") }),
    "apikey", { Str("alias-key") }),
    "username", { Str("user") }),
    "password", { Str("secret") }),
    "use_unauthenticated", { True, False }),
    "qs", QsValues)

\* The environment: VISUAL_RECOGNITION_API_KEY, _USERNAME and _PASSWORD,
\* each set or not.
Environments ==
  [API_KEY : { Undefined, Str("env-key") },
   USERNAME : { Undefined, Str("env-user") },
   PASSWORD : { Undefined, Str("env-secret") }]

\* The credentials of a bound watson_vision_combined service, if any.
BluemixCredentials == { EmptyObject, [jstype |-> "object", api_key |-> Str("bluemix-key")] }

\* getCredentialsFromEnvironment, lines 226-233.
getCredentialsFromEnvironment(env) ==
  Extend([jstype |-> "object", api_key |-> env.API_KEY],
         Defined([jstype |-> "object", username |-> env.USERNAME,
                  password |-> env.PASSWORD]))

CredentialsError ==
  [jstype |-> "Error",
   message |-> "Argument error: api_key or username/password was not specified"]

\* Mutant of MissingCredentials: a username without a password will do.
MissingCredentialsEither(options) ==
  /\ ~Truthy(Prop(options, "api_key"))
  /\ ~(Truthy(Prop(options, "username")) \/ Truthy(Prop(options, "password")))

\* !options.api_key && !(options.username && options.password), line 208.
MissingCredentials(options) ==
  /\ ~Truthy(Prop(options, "api_key"))
  /\ ~(Truthy(Prop(options, "username")) /\ Truthy(Prop(options, "password")))

\* initCredentials(options), lines 204-216: the error it throws (Undefined
\* if none) and the options it returns.
initCredentials(options, env, bluemix) ==
  LET aliased == Set(options, "api_key",
                     IF Truthy(Prop(options, "api_key")) THEN options.api_key
                                                         ELSE Prop(options, "apikey"))
      merged == Extend(Extend(Extend(EmptyObject, Defined(bluemix)),
                              Defined(getCredentialsFromEnvironment(env))),
                       Defined(aliased))
  IN
  IF Truthy(Prop(merged, "use_unauthenticated"))
    THEN [threw |-> Undefined, options |-> merged]
  ELSE IF MissingCredentials(merged)
    THEN [threw |-> CredentialsError, options |-> Undefined]
  ELSE [threw |-> Undefined,
        options |-> Set(merged, "qs",
                        Extend([jstype |-> "object", api_key |-> Prop(merged, "api_key")],
                               IF Truthy(Prop(merged, "qs")) THEN Defined(merged.qs)
                                                             ELSE EmptyObject))]

CredIdle ==
  /\ cOptions = EmptyObject
  /\ cEnv = [API_KEY |-> Undefined, USERNAME |-> Undefined, PASSWORD |-> Undefined]
  /\ cBluemix = EmptyObject
  /\ cResult = << >>

CredInit ==
  /\ cOptions \in CallerOptions
  /\ cEnv \in Environments
  /\ cBluemix \in BluemixCredentials
  /\ cResult = << >>

\* The constructor calls this.initCredentials(options).
InitCredentials ==
  /\ cResult = << >>
  /\ cResult' = << initCredentials(cOptions, cEnv, cBluemix) >>
  /\ UNCHANGED << cOptions, cEnv, cBluemix, getVars, botVars, visVars, detVars >>

(***************************************************************************)
(* Specifications: the bot (Spec), the client's operations (SpecVision),   *)
(* content-type detection (SpecDetect), one call of getJSON (SpecGetJSON)  *)
(* and one call of initCredentials (SpecCredentials).                      *)
(***************************************************************************)
vars == << botVars, visVars, detVars, libVars >>

Init == BotInit /\ VisInit /\ DetIdle /\ GetIdle /\ CredIdle

Next == BotNext

Spec == Init /\ [][Next]_vars

NextVision == VisNext

SpecVision == Init /\ [][NextVision]_vars

InitDetect == BotInit /\ VisInit /\ DetInit /\ GetIdle /\ CredIdle

NextDetect == Detect

SpecDetect == InitDetect /\ [][NextDetect]_vars

InitGetJSON == BotInit /\ VisInit /\ DetIdle /\ GetInit /\ CredIdle

NextGetJSON == PhinCallback

SpecGetJSON == InitGetJSON /\ [][NextGetJSON]_vars

InitCredentialsCall == BotInit /\ VisInit /\ DetIdle /\ GetIdle /\ CredInit

NextCredentials == InitCredentials

SpecCredentials == InitCredentialsCall /\ [][NextCredentials]_vars

TypeOK ==
  /\ alive \in BOOLEAN
  /\ pc \in [Msgs -> {"none", "getFile", "download", "recognize", "end"}]
  /\ \A m \in Msgs : file_id[m] \in FileIds \cup {NoFile}
  /\ wsState \in [Msgs -> {"none", "open"}]
  /\ wsPending \in [Msgs -> BOOLEAN]
  /\ rsState \in [Msgs -> {"none", "pending", "read"}]
  /\ audioRead \in [Msgs -> {"none", "empty", "data"}]
  /\ unlinked \in [Msgs -> SUBSET Paths]
  /\ files \subseteq Paths
  /\ \A m \in Msgs : Len(replies[m]) <= 1
  /\ boot \in {"start", "configured", "subscribed", "polling"}
  /\ configReads \in 0..1
  /\ vpc \in {"idle", "done", "responded"}
  /\ vhasCb \in BOOLEAN
  /\ dType \in {"pending", "undefined", "application/zip", "image/png", "image/jpeg"}

(***************************************************************************)
(* Properties of the bot.                                                  *)
(***************************************************************************)
\* The calls message m has made so far, in order.
OutboundCalls == { "getFile", "download", "recognize", "reply" }
Calls(m) == SelectSeq(trace[m], LAMBDA e : e \in OutboundCalls)
CallOrder == << "getFile", "download", "recognize", "reply" >>
IsPrefix(a, b) == Len(a) <= Len(b) /\ \A i \in 1..Len(a) : a[i] = b[i]
Happened(m, e) == \E i \in 1..Len(trace[m]) : trace[m][i] = e
\* Every event e of message m comes right after the event before.
RightAfter(m, e, before) ==
  \A i \in 1..Len(trace[m]) :
    trace[m][i] = e => i > 1 /\ trace[m][i - 1] = before

\* The recognize callback of message m has fired, with or without an error.
Recognized(m) == recCb[m] # NoRec

\* C1: for every voice message the bot sends at most one reply, only after
\* the recognize callback of that message has fired without an error, and
\* the text sent is the transcript of the first alternative of the first
\* result the service returned for that message.
C1_ReplyIsFirstTranscript ==
  \A m \in Msgs :
    /\ Len(replies[m]) <= 1
    /\ replies[m] # << >> =>
         /\ Recognized(m)
         /\ recCb[m].err = Null
         /\ RightAfter(m, "reply", "recognize.cb")
         /\ replies[m][1] = recCb[m].res.results[1].alternatives[1].transcript

\* A reply was sent for a result that holds two alternatives.
C1_Witness ==
  \E m \in Msgs :
    /\ Len(replies[m]) = 1
    /\ Len(recCb[m].res.results[1].alternatives) = 2

\* C2 (as claimed): once the download has ended, the transcription has been
\* requested and the chain of the message has finished, the audio file the
\* handler wrote for the message is no longer in local storage.
C2_FileRemovedAfterChain ==
  \A m \in Msgs :
    (alive /\ pc[m] = "end" /\ Happened(m, "recognize") /\ Happened(m, "unlink"))
      => OggPath(file_id[m]) \notin files

\* C3 (as claimed): while the recognize call of a message is outstanding,
\* the handler has issued no removal for that message.
C3_NoUnlinkWhileRecognizing ==
  \A m \in Msgs : pc[m] = "recognize" => unlinked[m] = {}

\* Message m has a stream on its audio file that is still at work, or may
\* still make one.
UsingFile(m) ==
  /\ alive
  /\ HasStreams(m)
  /\ pc[m] \in {"download", "recognize"} \/ wsPending[m] \/ rsState[m] = "pending"

\* C4 (as claimed): two distinct messages that use their audio files at the
\* same time use different paths.
C4_NoSharedPath ==
  \A m1, m2 \in Msgs :
    (m1 # m2 /\ UsingFile(m1) /\ UsingFile(m2))
      => OggPath(file_id[m1]) # OggPath(file_id[m2])

\* C5: when the recognize callback of a message receives an error, the error
\* is logged, no reply is sent for the message, and recognize is called at
\* most once per message.
C5_ErrorLoggedNoReplyNoRetry ==
  \A m \in Msgs :
    /\ Len(SelectSeq(trace[m], LAMBDA e : e = "recognize")) <= 1
    /\ Len(SelectSeq(trace[m], LAMBDA e : e = "recognize.cb")) <= 1
    /\ (Recognized(m) /\ Truthy(recCb[m].err)) =>
         /\ console[m] = << recCb[m].err >>
         /\ replies[m] = << >>
         /\ ~Happened(m, "reply")

\* The recognize callback of some message received an error.
C5_Witness ==
  \E m \in Msgs : Recognized(m) /\ Truthy(recCb[m].err) /\ pc[m] = "end"

\* C6 (as claimed): when getFile or the download of a message fails with a
\* network error, the error is logged, no later step of the message runs
\* and no exception leaves the handler's callbacks.
C6_NetworkErrorLoggedAndDropped ==
  \A m \in Msgs :
    (getErr[m] = Str("ECONNRESET") \/ Happened(m, "download.error")) =>
      /\ console[m] # << >>
      /\ ~Happened(m, "throw")
      /\ ~Happened(m, "recognize")
      /\ ~Happened(m, "reply")

\* C7: the calls of a message are made in the order getFile, download,
\* recognize, reply, each at most once, and each right after the step
\* before it has completed.
C7_CallsInOrder ==
  \A m \in Msgs :
    /\ IsPrefix(Calls(m), CallOrder)
    /\ RightAfter(m, "download", "getFile.cb")
    /\ RightAfter(m, "recognize", "download.end")
    /\ RightAfter(m, "reply", "recognize.cb")

\* Some message has made all four calls.
C7_Witness == \E m \in Msgs : Calls(m) = CallOrder

\* C8 (as claimed, at the end of the chain): a message whose getFile,
\* download and recognize calls have all succeeded has its reply once its
\* chain has finished.
C8_SuccessfulChainReplies ==
  \A m \in Msgs :
    ( /\ pc[m] = "end"
      /\ getErr[m] = Null
      /\ Happened(m, "download.end")
      /\ Recognized(m)
      /\ recCb[m].err = Null )
      => Len(replies[m]) = 1

\* The handler of message m has been called.
Handled(m) == pc[m] # "none"

\* C13: the configuration file is read once, when the process starts:
\* before the voice handler is subscribed and before polling starts it has
\* been read, it is never read a second time, and every message is handled
\* with the bot token of that one read.
C13_ConfigReadOnceAtStart ==
  /\ configReads <= 1
  /\ boot \in {"configured", "subscribed", "polling"} => configReads = 1
  /\ \A m \in Msgs :
       Handled(m) => /\ boot = "polling"
                     /\ configReads = 1
                     /\ token[m] = BOT_TOKEN
                     /\ \A k \in Msgs : Handled(k) => token[k] = token[m]

\* Two messages have been handled, the second after the first had
\* finished.
C13_Witness ==
  /\ boot = "polling"
  /\ configReads = 1
  /\ pc[1] = "end"
  /\ pc[2] = "recognize"
  /\ token[1] = Str("123:abc")
  /\ token[2] = Str("123:abc")

\* C14: every transcription request of the bot names the Spanish model
\* 'es-ES_BroadbandModel' and the content type 'audio/ogg;codecs=opus',
\* whatever the message.
C14_SpanishModelAndOggOpus ==
  \A m \in Msgs :
    Happened(m, "recognize") =>
      /\ recParams[m] # NoParams
      /\ recParams[m].model = "es-ES_BroadbandModel"
      /\ recParams[m].content_type = "audio/ogg;codecs=opus"

\* Two messages with different file ids have both asked for a
\* transcription.
C14_Witness ==
  /\ Happened(1, "recognize")
  /\ Happened(2, "recognize")
  /\ file_id[1] # file_id[2]
  /\ recParams[1].model = "es-ES_BroadbandModel"
  /\ recParams[2].model = "es-ES_BroadbandModel"

\* C15: the read stream of a message's transcription never reads the
\* audio file while bytes of the message's download are still pending in
\* the write stream to that file.
C15_ReadAfterWriteComplete ==
  \A m \in Msgs : rsState[m] = "read" => ~wsPending[m]

\* The chain of message m is under way: a call of it has not come back.
InFlight(m) == pc[m] \in {"getFile", "download", "recognize"}

\* C16: a failure in the chain of one message leaves the others running:
\* the process that has to deliver the callbacks of every message in
\* flight, and to receive the later ones, is still there.
C16_FailureLeavesOthersRunning ==
  \A m \in Msgs : InFlight(m) => alive

(***************************************************************************)
(* Properties of get-json.                                                 *)
(***************************************************************************)
\* The body of what phin handed over is not JSON: the three bodies of the
\* model that JSON.parse rejects.
NotJSON(o) == o.response.body \in { "<html>", "", "{ok:true,resu" }

\* C17: getJSON calls its callback once per call: with the transport error
\* if there is one; else with the 'Parse error: ...' error if the body is
\* not JSON, whatever the status code; else with 'Unexpected response
\* code.' if the status code is not 200; else with null and the parsed
\* body.  The parsed body comes only with a null error.
C17_OneCallbackByPrecedence ==
  gDone =>
    /\ Len(gCalls) = 1
    /\ IF gOutcome.error # Null
         THEN gCalls[1] = Call(gOutcome.error, Undefined)
       ELSE IF NotJSON(gOutcome)
         THEN gCalls[1] = Call(Str("Parse error: SyntaxError"), Undefined)
       ELSE IF gOutcome.response.statusCode # 200
         THEN gCalls[1] = Call(Str("Unexpected response code."), Undefined)
       ELSE gCalls[1] = Call(Null, JSONparse(gOutcome.response.body))
    /\ gCalls[1].response # Undefined => gCalls[1].error = Null

\* A page of HTML sent with status 404 was reported as a parse error.
C17_Witness ==
  /\ gDone
  /\ gOutcome.error = Null
  /\ gOutcome.response.body = "<html>"
  /\ gOutcome.response.statusCode = 404
  /\ gCalls = << Call(Str("Parse error: SyntaxError"), Undefined) >>

(***************************************************************************)
(* Properties of the Visual Recognition client.                            *)
(***************************************************************************)
ImageOps == { "classify", "detectFaces", "recognizeText" }

\* The caller's params hold a value for k; as in the code, a value counts
\* as present by JavaScript's truthiness.
Present(params, k) == Truthy(params) /\ Truthy(Prop(params, k))

GivesFile(params) == Present(params, "images_file") \/ Present(params, "image_file")
GivesUrl(params) == Present(params, "url")

\* C9: classify, detectFaces and recognizeText hand a request to the network
\* exactly when one of the file (images_file, or its alias image_file) and
\* the url is present and the other is not; with both, with neither and
\* with no params, no request is made and the callback the caller passed
\* is called once with the 'requires either an images_file or a url
\* parameter' error.
C9_RequestIffExactlyOneSource ==
  (vpc = "done" /\ vop \in ImageOps /\ vhasCb) =>
    IF GivesFile(vparams) # GivesUrl(vparams)
      THEN /\ vrequest # Undefined
           /\ vcallback = << >>
           /\ vrequest.method = (IF GivesFile(vparams) THEN "POST" ELSE "GET")
      ELSE /\ vrequest = Undefined
           /\ vcallback = << ImageParamError >>
           /\ vthrown = Undefined

\* A call that gives both a file (by the alias) and a url was rejected.
C9_Witness ==
  /\ vpc = "done"
  /\ vhasCb
  /\ vop = "detectFaces"
  /\ Present(vparams, "image_file")
  /\ ~Present(vparams, "images_file")
  /\ GivesUrl(vparams)
  /\ vrequest = Undefined
  /\ vcallback = << ImageParamError >>

\* The response is an error outcome: a transport error, or a result whose
\* status is 'ERROR'.
ErrorOutcome(r) == Truthy(r.err) \/ Prop(r.result, "status") = Str("ERROR")

\* C11: with a callback, every response reaches it in exactly one call, and
\* an error outcome (a transport error, or a result of status 'ERROR'
\* whatever its statusInfo) reaches it as an error; with no callback,
\* nothing is called and nothing is thrown.
C11_EveryOutcomeReachesCallback ==
  vpc = "responded" =>
    IF vhasCb
      THEN /\ Len(vresult) = 1
           /\ ErrorOutcome(vresponse) => Truthy(vresult[1].err)
      ELSE vresult = << >> /\ vthrown = Undefined

ThrowingOps == { "addImage", "findSimilar" }
CallbackOps == ImageOps \cup { "createClassifier" }

\* The params of the call fail the operation's own validation.
Invalid(op, params) ==
  CASE op \in ThrowingOps ->
         ~Present(params, "image_file") \/ params.image_file.jstype # "stream"
    [] op \in ImageOps -> GivesFile(params) = GivesUrl(params)
    [] op = "createClassifier" ->
         \/ ~Truthy(params)
         \/ Cardinality({ k \in DOMAIN params :
                            k \in { "negative_examples", "foo_positive_examples",
                                    "bar_positive_examples" } }) < 2

\* C12: a call with invalid params never dispatches a request; addImage and
\* findSimilar throw the error and do not call the callback; classify,
\* detectFaces, recognizeText and createClassifier, called with a callback,
\* throw nothing and call it once with the error.
C12_ValidationThrowsOrCallsBack ==
  (vpc = "done" /\ Invalid(vop, vparams)) =>
    /\ vrequest = Undefined
    /\ vop \in ThrowingOps => vthrown = ImageFileError /\ vcallback = << >>
    /\ (vop \in CallbackOps /\ vhasCb) =>
         /\ vthrown = Undefined
         /\ Len(vcallback) = 1
         /\ vcallback[1] = IF vop = "createClassifier" THEN MissingExamplesError
                                                        ELSE ImageParamError

\* findSimilar, called with a callback and the name of a file for
\* image_file, threw.
C12_Witness ==
  /\ vpc = "done"
  /\ vop = "findSimilar"
  /\ vhasCb
  /\ Prop(vparams, "image_file") = Str("red_dress.jpg")
  /\ vthrown = ImageFileError
  /\ vcallback = << >>
  /\ vrequest = Undefined

\* The example sets of the params: negative_examples, and the keys made of
\* a class name and '_positive_examples'.
PositiveSets(params) ==
  IF Truthy(params)
    THEN { k \in DOMAIN params : k \in { PositiveKey(c) : c \in ClassNames \ { "" } } }
    ELSE { }
HasNegative(params) == Truthy(params) /\ "negative_examples" \in DOMAIN params

\* C18: createClassifier hands a request to the network only when params
\* holds two or more *_positive_examples keys, or one together with
\* negative_examples, and the form data of the request is name and the
\* example keys of params and nothing else; with fewer example sets it
\* makes no request and calls the callback the caller passed once with the
\* 'Missing required parameters' error.
C18_ClassifierNeedsTwoExampleSets ==
  (vpc = "done" /\ vop = "createClassifier") =>
    IF \/ Cardinality(PositiveSets(vparams)) >= 2
       \/ Cardinality(PositiveSets(vparams)) = 1 /\ HasNegative(vparams)
      THEN /\ vrequest # Undefined
           /\ vcallback = << >>
           /\ vthrown = Undefined
           /\ DOMAIN vrequest.formData \ { "jstype" } =
                DOMAIN vparams \cap
                  ({ "name", "negative_examples" } \cup PositiveSets(vparams))
           /\ \A k \in DOMAIN vrequest.formData \ { "jstype" } :
                vrequest.formData[k] = vparams[k]
      ELSE /\ vrequest = Undefined
           /\ vhasCb => vcallback = << MissingExamplesError >> /\ vthrown = Undefined

\* A call with one class, negative_examples and a property that is not an
\* example set was dispatched without that property.
C18_Witness ==
  /\ vpc = "done"
  /\ vop = "createClassifier"
  /\ Truthy(vparams)
  /\ DOMAIN vparams = { "jstype", "name", "negative_examples", "foo_positive_examples",
                        "classifier_id" }
  /\ vrequest # Undefined
  /\ "classifier_id" \notin DOMAIN vrequest.formData
  /\ "negative_examples" \in DOMAIN vrequest.formData

\* The first of the values that is not undefined (undefined if none).
FirstDefined(vals) ==
  IF \E i \in 1..Len(vals) : vals[i] # Undefined
    THEN vals[CHOOSE i \in 1..Len(vals) :
                /\ vals[i] # Undefined
                /\ \A j \in 1..(i - 1) : vals[j] = Undefined]
    ELSE Undefined

\* The caller's api_key, or the alias apikey if api_key is absent or empty.
CallerKey ==
  IF Truthy(Prop(cOptions, "api_key")) THEN cOptions.api_key ELSE Prop(cOptions, "apikey")

\* The credentials after the merge: the caller's, else the environment's,
\* else Bluemix's.
MergedKey == FirstDefined(<< CallerKey, cEnv.API_KEY, Prop(cBluemix, "api_key") >>)
MergedUsername == FirstDefined(<< Prop(cOptions, "username"), cEnv.USERNAME >>)
MergedPassword == FirstDefined(<< Prop(cOptions, "password"), cEnv.PASSWORD >>)
Unauthenticated == Truthy(Prop(cOptions, "use_unauthenticated"))

\* C19: initCredentials throws 'api_key or username/password was not
\* specified' exactly when use_unauthenticated is not set and the merged
\* options have neither an api_key nor both a username and a password;
\* when it returns and use_unauthenticated is not set, the api_key of the
\* returned query string is the merged api_key, unless the caller's qs
\* sets api_key, which then stays.
C19_CredentialsOrThrow ==
  cResult # << >> =>
    LET r == cResult[1] IN
    /\ (r.threw = CredentialsError) <=>
         /\ ~Unauthenticated
         /\ ~Truthy(MergedKey)
         /\ ~(Truthy(MergedUsername) /\ Truthy(MergedPassword))
    /\ r.threw \in { Undefined, CredentialsError }
    /\ (r.threw = Undefined /\ ~Unauthenticated) =>
         /\ Prop(r.options, "api_key") = MergedKey
         /\ Prop(r.options.qs, "api_key") =
              IF Prop(Prop(cOptions, "qs"), "api_key") # Undefined
                THEN cOptions.qs.api_key
                ELSE MergedKey

\* A caller who gave only the alias apikey, with a key in the environment
\* too, got the alias in the query string.
C19_Witness ==
  /\ cResult # << >>
  /\ "api_key" \notin DOMAIN cOptions
  /\ Prop(cOptions, "apikey") = Str("alias-key")
  /\ cEnv.API_KEY = Str("env-key")
  /\ ~Unauthenticated
  /\ cResult[1].threw = Undefined
  /\ cResult[1].options.qs.api_key = Str("alias-key")

\* The content type the claim gives for the four bytes of a buffer.
ClaimedContentType(bytes) ==
  CASE bytes \in { << \h50, \h4B, \h03, \h04 >>, << \h50, \h4B, \h05, \h06 >>,
                   << \h50, \h4B, \h07, \h08 >> } -> "application/zip"
    [] bytes = << \h89, \h50, \h4E, \h47 >> -> "image/png"
    [] bytes \in { << \hFF, \hD8, \hFF, \hE0 >>, << \hFF, \hD8, \hFF, \hE1 >>,
                   << \hFF, \hD8, \hFF, \hE8 >> } -> "image/jpeg"
    [] OTHER -> "undefined"

\* C10: detectContentType returns 'application/zip' for the signatures
\* 0x504b0304, 0x504b0506 and 0x504b0708, 'image/png' for 0x89504e47,
\* 'image/jpeg' for 0xffd8ffe0, 0xffd8ffe1 and 0xffd8ffe8, and undefined for
\* every other value of the first four bytes.
C10_ContentTypeTable ==
  dType # "pending" => dType = ClaimedContentType(dBuffer)

\* detectContentType was called with the signature 0xffd8ffe8.
C10_Witness ==
  dBuffer = << \hFF, \hD8, \hFF, \hE8 >> /\ dType = "image/jpeg"

====
